---- MODULE Spec2Model ----
(***************************************************************************)
(* Exam attempt engine of exam-system (src/exams/views.py, models.py).     *)
(*                                                                         *)
(* The persisted entities are the ExamStudent rows (attempts) and the      *)
(* StudentAnswer rows (answers).  Every HTTP request runs in a worker of   *)
(* its own; the views open no transaction and take no lock, so each ORM    *)
(* query of a view is one atomic step and the steps of different requests  *)
(* interleave freely.  Model.save() writes every column of the in-memory   *)
(* copy of the row.                                                        *)
(*                                                                         *)
(* Time is counted in minutes.  Scores are integers (marks are positive    *)
(* integers; the negative-marking coefficient is one unit).  The workers   *)
(* are interchangeable, the bank holds three questions and one exam with   *)
(* two of them, and one student takes it.                                  *)
(***************************************************************************)
EXTENDS Integers, Sequences, FiniteSets, TLC

\* ------------------------------------------------------------------ bounds
NumWorkers == 2        \* requests that can be in flight at once
MaxTime == 2           \* the clock runs 0 .. MaxTime
MaxRequests == 3       \* requests made in one run
MaxGradeMarks == 1     \* an instructor awards 0 .. MaxGradeMarks

Workers == 1 .. NumWorkers

\* ------------------------------------------------------- catalog (read-only)
Students == {"s1"}
ExamId == 1

\* Question.Type
ObjectiveTypes == {"MCQ", "MSQ", "TRUE_FALSE"}
SubjectiveTypes == {"SHORT", "LONG", "CODE"}

\* The question bank: question 1 is an MCQ with options 1 (wrong) and
\* 2 (correct); question 2 is a short-answer question; question 3 is a
\* multiple-select question with options 3 and 4, both correct, that the exam
\* does not contain.
QuestionIds == {1, 2, 3}
\* a question id the bank does not hold
MissingQuestion == Cardinality(QuestionIds) + 1

question_type(q) == IF q = 1 THEN "MCQ" ELSE IF q = 2 THEN "SHORT" ELSE "MSQ"
question_marks(q) == IF q = 1 THEN 1 ELSE 2
question_options(q) == IF q = 1 THEN {1, 2} ELSE IF q = 2 THEN {} ELSE {3, 4}
correct_options(q) == IF q = 1 THEN {2} ELSE IF q = 2 THEN {} ELSE {3, 4}

\* Exam fields.
start_datetime == 0
end_datetime == 1
duration_minutes == 1

\* the ExamQuestion rows of the exam, by ExamQuestion.order: the order the
\* exam defines for its questions
exam_questions == <<1, 2>>

\* the Exam rows tried: shuffled with negative marking, and neither; both
\* with the questions of exam_questions
ExamConfigs ==
    { [shuffle_questions |-> TRUE, negative_marking |-> 1,
       questions |-> exam_questions],
      [shuffle_questions |-> FALSE, negative_marking |-> 0,
       questions |-> exam_questions] }

\* ExamQuestion.marks_override: question 1 counts 2 marks in this exam,
\* question 2 has no override (NULL)
NoOverride == -1
marks_override(q) == IF q = 1 THEN 2 ELSE NoOverride

\* ------------------------------------------------------------------- state
VARIABLES
    now,            \* timezone.now(), in minutes
    exam,           \* the Exam row: shuffle_questions, negative_marking, and
                    \* the questions of its ExamQuestion rows
    attempts,       \* ExamStudent table: sequence of rows, id = index
    answers,        \* StudentAnswer table: <<attempt id, question id>> -> row
    pc,             \* per worker: where its request stands
    loc,            \* per worker: the request and the view's local variables
    resp,           \* the response sent by the step just taken, if any
    requests,       \* requests made so far
    scorer_runs     \* per attempt id: how often the auto evaluation has run

vars == <<now, exam, attempts, answers, pc, loc, resp, requests, scorer_runs>>

store == <<attempts, answers>>

NoTime == -1
Terminal == {"SUBMITTED", "AUTO_SUBMITTED"}

\* ExamStudent(exam=..., student=...) with the field defaults of the model
new_attempt(id, student) ==
    [id |-> id, exam |-> ExamId, student |-> student,
     status |-> "NOT_STARTED",
     score_objective |-> 0, score_subjective |-> 0, total_score |-> 0,
     started_at |-> NoTime, submitted_at |-> NoTime,
     question_order |-> <<>>]

NoAttempt == new_attempt(0, "nobody")

\* StudentAnswer(...) with the field defaults of the model
new_answer ==
    [selected_options |-> <<>>, answer_text |-> "",
     is_evaluated |-> FALSE, marks_awarded |-> 0]

\* request payloads of save-answer: the right option, the wrong option
\* with a text, and nothing at all
Payloads ==
    { [selected_options |-> <<2>>, answer_text |-> ""],
      [selected_options |-> <<1>>, answer_text |-> "text"],
      [selected_options |-> <<>>, answer_text |-> ""] }

NoPayload == [selected_options |-> <<>>, answer_text |-> ""]

IdleLoc ==
    [op |-> "none", user |-> "nobody", attempt_id |-> 0, attempt |-> NoAttempt,
     created |-> FALSE, question |-> 0, payload |-> NoPayload, marks |-> 0,
     answer |-> new_answer, snap |-> <<>>, todo |-> {}, total |-> 0]

NoRequest == [op |-> "none", user |-> "nobody", attempt_id |-> 0, created |-> FALSE]

NoResp == [worker |-> 0, request |-> NoRequest, body |-> [status |-> "none"]]

ToSet(s) == { s[i] : i \in DOMAIN s }

AttemptIds == DOMAIN attempts

\* the attempt ids a request may name: every stored one and one that is not
NamedIds == 1 .. Len(attempts) + 1

\* ExamStudent rows matching exam=exam, student=student
matching(student) ==
    { i \in AttemptIds : attempts[i].exam = ExamId /\ attempts[i].student = student }

\* the orders random.shuffle can leave the list in
shuffles(s) ==
    { p \in [DOMAIN s -> ToSet(s)] : \A i, j \in DOMAIN s : i # j => p[i] # p[j] }

\* exam.questions.all(): a Question queryset joined to the ExamQuestion rows
\* of the exam.  Question has no Meta.ordering and the ordering of the
\* through model is not applied to it, so the query has no ORDER BY and the
\* database returns the rows in an order of its choosing.
questions_all == shuffles(exam.questions)

\* questions = list(exam.questions.all()); shuffled if exam.shuffle_questions
question_orders ==
    IF exam.shuffle_questions
    THEN UNION { shuffles(questions) : questions \in questions_all }
    ELSE questions_all

Init ==
    /\ now = 0
    /\ exam \in ExamConfigs
    /\ attempts = <<>>
    /\ answers = <<>>
    /\ pc = [p \in Workers |-> "idle"]
    /\ loc = [p \in Workers |-> IdleLoc]
    /\ resp = NoResp
    /\ requests = 0
    /\ scorer_runs = [i \in 1 .. NumWorkers |-> 0]

\* ---------------------------------------------------------------- the clock
Tick ==
    /\ now < MaxTime
    /\ now' = now + 1
    /\ resp' = NoResp
    /\ UNCHANGED <<exam, attempts, answers, pc, loc, requests, scorer_runs>>

\* ------------------------------------------------------------- the workers
\* the workers are interchangeable: the first idle one takes the next request
Free(p) == pc[p] = "idle" /\ \A q \in Workers : q < p => pc[q] # "idle"

\* worker p takes a request off the network
Accept(p) ==
    /\ Free(p)
    /\ requests < MaxRequests
    /\ requests' = requests + 1

\* the view returns response r and the worker is free again
Reply(p, l, r) ==
    /\ pc' = [pc EXCEPT ![p] = "idle"]
    /\ loc' = [loc EXCEPT ![p] = IdleLoc]
    /\ resp' = [worker |-> p,
                request |-> [op |-> l.op, user |-> l.user,
                             attempt_id |-> l.attempt_id, created |-> l.created],
                body |-> r]

\* the view goes on to its next query
Goto(p, l, label) ==
    /\ pc' = [pc EXCEPT ![p] = label]
    /\ loc' = [loc EXCEPT ![p] = l]
    /\ resp' = NoResp

\* ----------------------------------------------------------- take_exam_view
\* the page that opens the exam: too early? too late?
take_exam_page(t) ==
    IF t < start_datetime THEN "not_started_yet"
    ELSE IF t > end_datetime THEN "ended"
    ELSE "take_exam"

TakeExamView(p, user) ==
    /\ Accept(p)
    /\ Reply(p, [IdleLoc EXCEPT !.op = "take_exam", !.user = user],
             [status |-> take_exam_page(now)])
    /\ UNCHANGED <<now, exam, attempts, answers, scorer_runs>>

\* ------------------------------------------------------ StartExamView.post
\* get_or_create, first half: the SELECT
StartGet(p, user) ==
    /\ Accept(p)
    /\ LET found == matching(user)
           l == [IdleLoc EXCEPT !.op = "start", !.user = user] IN
        \/ /\ found = {}
           /\ Goto(p, l, "start_create")
        \/ /\ Cardinality(found) = 1
           /\ LET i == CHOOSE i \in found : TRUE IN
                Goto(p, [l EXCEPT !.attempt_id = i, !.attempt = attempts[i]],
                     "start_respond")
        \/ /\ Cardinality(found) > 1    \* MultipleObjectsReturned
           /\ Reply(p, l, [status |-> "ServerError"])
    /\ UNCHANGED <<now, exam, attempts, answers, scorer_runs>>

\* get_or_create, second half: the INSERT (no unique constraint can refuse it)
StartCreate(p) ==
    /\ pc[p] = "start_create"
    /\ LET id == Len(attempts) + 1
           row == new_attempt(id, loc[p].user) IN
        /\ attempts' = Append(attempts, row)
        /\ Goto(p, [loc[p] EXCEPT !.attempt_id = id, !.attempt = row, !.created = TRUE],
                "start_save")
    /\ UNCHANGED <<now, exam, answers, requests, scorer_runs>>

\* if created: status, started_at, question_order; attempt.save()
started(attempt, t, order) ==
    [attempt EXCEPT !.status = "IN_PROGRESS", !.started_at = t,
                    !.question_order = order]

StartSave(p) ==
    /\ pc[p] = "start_save"
    /\ \E order \in question_orders :
        LET row == started(loc[p].attempt, now, order) IN
        /\ attempts' = [attempts EXCEPT ![loc[p].attempt_id] = row]
        /\ Goto(p, [loc[p] EXCEPT !.attempt = row], "start_respond")
    /\ UNCHANGED <<now, exam, answers, requests, scorer_runs>>

\* questions_dict[qid] for qid in question_order if qid in questions_dict;
\* without a stored order, the list as exam.questions.all() returns it
ordered_questions(attempt, questions) ==
    IF attempt.question_order # <<>>
    THEN SelectSeq(attempt.question_order, LAMBDA q : q \in ToSet(questions))
    ELSE questions

\* a QuestionOption row of question q
option_row(q, o, correct) ==
    [id |-> o, question |-> q, text |-> <<"option", o>>, is_correct |-> o \in correct]

\* mutant: every field of the row is serialized
QuestionOptionSerializer_all(option) == option

\* QuestionOptionSerializer: fields = ['id', 'text']
QuestionOptionSerializer(option) == [id |-> option.id, text |-> option.text]

\* QuestionSerializer: id, question_type, marks and the serialized options
\* of a question whose options flagged correct are those of `correct`
QuestionSerializer(q, correct) ==
    [id |-> q, question_type |-> question_type(q), marks |-> question_marks(q),
     options |-> { QuestionOptionSerializer(option_row(q, o, correct)) :
                     o \in question_options(q) }]

\* serializer.data of QuestionSerializer(questions, many=True)
serializer_data(questions) ==
    [i \in DOMAIN questions |->
        QuestionSerializer(questions[i], correct_options(questions[i]))]

\* answers_map: question id -> payload, over the attempt's stored answers
saved_answers(id) ==
    [q \in { q \in QuestionIds : <<id, q>> \in DOMAIN answers } |->
        [selected_options |-> answers[<<id, q>>].selected_options,
         answer_text |-> answers[<<id, q>>].answer_text]]

Max(a, b) == IF a >= b THEN a ELSE b

\* mutant: the time left until the exam window closes
remaining_in_window(attempt, t) == Max(0, (end_datetime - t) * 60)

\* max(0, total_seconds - elapsed)
remaining_seconds(attempt, t) ==
    Max(0, duration_minutes * 60 - (t - attempt.started_at) * 60)

\* the response of start; now - None raises TypeError
start_response(attempt, questions) ==
    IF attempt.started_at = NoTime
    THEN [status |-> "ServerError"]
    ELSE [status |-> "ok",
          attempt_id |-> attempt.id,
          questions |-> ordered_questions(attempt, questions),
          question_data |-> serializer_data(ordered_questions(attempt, questions)),
          saved_answers |-> saved_answers(attempt.id),
          remaining_seconds |-> remaining_seconds(attempt, now)]

StartRespond(p) ==
    /\ pc[p] = "start_respond"
    /\ \E questions \in questions_all :
         Reply(p, loc[p], start_response(loc[p].attempt, questions))
    /\ UNCHANGED <<now, exam, attempts, answers, requests, scorer_runs>>

\* --------------------------------------------- the attempt of the caller
\* mutant: the attempt is looked up by its id alone
owned_by_anyone(id, user) == id \in AttemptIds

\* get_object_or_404(ExamStudent, id=..., student=request.user) finds a row
owned(id, user) == id \in AttemptIds /\ attempts[id].student = user

\* ---------------------------------------------------- SubmitAnswerView.post
\* mutant: the check refuses the terminal states only
save_allowed_unless_terminal(attempt) == attempt.status \notin Terminal

\* attempt.status != IN_PROGRESS -> 400
save_allowed(attempt) == attempt.status = "IN_PROGRESS"

\* get_object_or_404(ExamStudent), the status check, get_object_or_404(Question)
SaveRead(p, user, id, q, payload) ==
    /\ Accept(p)
    /\ LET l == [IdleLoc EXCEPT !.op = "saveAnswer", !.user = user, !.attempt_id = id,
                                !.question = q, !.payload = payload] IN
       IF ~owned(id, user)
       THEN Reply(p, l, [status |-> "NotFound"])
       ELSE IF ~save_allowed(attempts[id])
       THEN Reply(p, l, [status |-> "InvalidState"])
       ELSE IF q \notin QuestionIds
       THEN Reply(p, l, [status |-> "NotFound"])
       ELSE Goto(p, l, "save_write")
    /\ UNCHANGED <<now, exam, attempts, answers, scorer_runs>>

\* mutant: a stored answer is kept as it is
get_or_create_only(key, payload) ==
    IF key \in DOMAIN answers
    THEN answers
    ELSE (key :> [new_answer EXCEPT !.selected_options = payload.selected_options,
                                    !.answer_text = payload.answer_text]) @@ answers

\* mutant: an empty text in the request leaves the stored text in place
update_or_create_merged(key, payload) ==
    IF key \in DOMAIN answers
    THEN [answers EXCEPT ![key].selected_options = payload.selected_options,
                         ![key].answer_text =
                             IF payload.answer_text = "" THEN @ ELSE payload.answer_text]
    ELSE (key :> [new_answer EXCEPT !.selected_options = payload.selected_options,
                                    !.answer_text = payload.answer_text]) @@ answers

\* update_or_create(exam_student, question, defaults={selected_options, answer_text})
update_or_create(key, payload) ==
    IF key \in DOMAIN answers
    THEN [answers EXCEPT ![key].selected_options = payload.selected_options,
                         ![key].answer_text = payload.answer_text]
    ELSE (key :> [new_answer EXCEPT !.selected_options = payload.selected_options,
                                    !.answer_text = payload.answer_text]) @@ answers

SaveWrite(p) ==
    /\ pc[p] = "save_write"
    /\ answers' = update_or_create(<<loc[p].attempt_id, loc[p].question>>, loc[p].payload)
    /\ Reply(p, loc[p], [status |-> "saved"])
    /\ UNCHANGED <<now, exam, attempts, requests, scorer_runs>>

\* ------------------------------------------------------ SubmitExamView.post
\* status in [SUBMITTED, AUTO_SUBMITTED] -> "already_submitted"
already_submitted(attempt) == attempt.status \in Terminal

\* attempt.status = SUBMITTED; attempt.submitted_at = timezone.now()
submitted(attempt, t) ==
    [attempt EXCEPT !.status = "SUBMITTED", !.submitted_at = t]

\* get_object_or_404(ExamStudent), the re-submission check, the in-memory transition
SubmitRead(p, user, id) ==
    /\ Accept(p)
    /\ LET l == [IdleLoc EXCEPT !.op = "submit", !.user = user, !.attempt_id = id] IN
       IF ~owned(id, user)
       THEN Reply(p, l, [status |-> "NotFound"])
       ELSE IF already_submitted(attempts[id])
       THEN Reply(p, l, [status |-> "already_submitted"])
       ELSE Goto(p, [l EXCEPT !.attempt = submitted(attempts[id], now)], "submit_fetch")
    /\ UNCHANGED <<now, exam, attempts, answers, scorer_runs>>

\* the attempt's StudentAnswer rows, as one SELECT returns them
answers_of(id) ==
    [q \in { q \in QuestionIds : <<id, q>> \in DOMAIN answers } |-> answers[<<id, q>>]]

\* the rows the loop evaluates: those of MCQ, MSQ and TRUE_FALSE questions
objective_rows(snap) ==
    { q \in DOMAIN snap : question_type(q) \in ObjectiveTypes }

\* for ans in student_answers: the queryset is fetched, total_objective_score = 0.0
SubmitFetch(p) ==
    /\ pc[p] = "submit_fetch"
    /\ LET snap == answers_of(loc[p].attempt_id)
           l == [loc[p] EXCEPT !.snap = snap, !.todo = objective_rows(snap),
                               !.total = 0] IN
       Goto(p, l, IF l.todo = {} THEN "submit_commit" ELSE "submit_score")
    /\ scorer_runs' = [scorer_runs EXCEPT ![loc[p].attempt_id] = @ + 1]
    /\ UNCHANGED <<now, exam, attempts, answers, requests>>

\* correct_options == selected_options
is_correct(q, ans) == correct_options(q) = ToSet(ans.selected_options)

\* the marks the loop awards to one answer
awarded(q, ans) == IF is_correct(q, ans) THEN question_marks(q) ELSE 0

\* mutant: an empty selection is penalised like a wrong one
score_delta_any_wrong(q, ans) ==
    IF is_correct(q, ans)
    THEN question_marks(q)
    ELSE IF exam.negative_marking > 0 THEN 0 - exam.negative_marking ELSE 0

\* what the loop adds to total_objective_score for one answer
score_delta(q, ans) ==
    IF is_correct(q, ans)
    THEN question_marks(q)
    ELSE IF exam.negative_marking > 0 /\ Cardinality(ToSet(ans.selected_options)) > 0
         THEN 0 - exam.negative_marking
         ELSE 0

\* one turn of the loop: evaluate the answer and ans.save()
SubmitScore(p) ==
    /\ pc[p] = "submit_score"
    /\ LET q == CHOOSE q \in loc[p].todo : \A r \in loc[p].todo : q <= r
           ans == loc[p].snap[q]
           row == [ans EXCEPT !.marks_awarded = awarded(q, ans), !.is_evaluated = TRUE]
           l == [loc[p] EXCEPT !.todo = @ \ {q}, !.total = @ + score_delta(q, ans)] IN
        /\ answers' = (<<loc[p].attempt_id, q>> :> row) @@ answers
        /\ Goto(p, l, IF l.todo = {} THEN "submit_commit" ELSE "submit_score")
    /\ UNCHANGED <<now, exam, attempts, requests, scorer_runs>>

\* mutant: the row is saved with the scores it was read with
scored_later(attempt, objective) == attempt

\* score_objective, total_score; attempt.save()
scored(attempt, objective) ==
    [attempt EXCEPT !.score_objective = objective,
                    !.total_score = objective + attempt.score_subjective]

SubmitCommit(p) ==
    /\ pc[p] = "submit_commit"
    /\ LET row == scored(loc[p].attempt, loc[p].total) IN
        /\ attempts' = [attempts EXCEPT ![loc[p].attempt_id] = row]
        /\ Reply(p, loc[p], [status |-> "submitted", score |-> row.total_score])
    /\ UNCHANGED <<now, exam, answers, requests, scorer_runs>>

\* ------------------------------------------------------------ grade_attempt
\* get_object_or_404(ExamStudent), get_object_or_404(Question)
GradeRead(p, id, q, marks) ==
    /\ Accept(p)
    /\ LET l == [IdleLoc EXCEPT !.op = "gradeAnswer", !.user = "teacher",
                                !.attempt_id = id, !.question = q, !.marks = marks] IN
       IF id \notin AttemptIds \/ q \notin QuestionIds
       THEN Reply(p, l, [status |-> "NotFound"])
       ELSE Goto(p, [l EXCEPT !.attempt = attempts[id]], "grade_answer")
    /\ UNCHANGED <<now, exam, attempts, answers, scorer_runs>>

\* StudentAnswer.objects.get_or_create(exam_student, question)
GradeAnswer(p) ==
    /\ pc[p] = "grade_answer"
    /\ LET key == <<loc[p].attempt_id, loc[p].question>> IN
       IF key \in DOMAIN answers
       THEN /\ Goto(p, [loc[p] EXCEPT !.answer = answers[key]], "grade_save")
            /\ UNCHANGED answers
       ELSE /\ answers' = (key :> new_answer) @@ answers
            /\ Goto(p, [loc[p] EXCEPT !.answer = new_answer, !.created = TRUE],
                    "grade_save")
    /\ UNCHANGED <<now, exam, attempts, requests, scorer_runs>>

\* mutant: the marks are added to those the answer has
graded_on_top(answer, marks) ==
    [answer EXCEPT !.marks_awarded = @ + marks, !.is_evaluated = TRUE]

\* answer.marks_awarded = marks; answer.is_evaluated = True; answer.save()
graded(answer, marks) ==
    [answer EXCEPT !.marks_awarded = marks, !.is_evaluated = TRUE]

GradeSave(p) ==
    /\ pc[p] = "grade_save"
    /\ LET row == graded(loc[p].answer, loc[p].marks) IN
        /\ answers' = (<<loc[p].attempt_id, loc[p].question>> :> row) @@ answers
        /\ Goto(p, [loc[p] EXCEPT !.answer = row], "grade_sum")
    /\ UNCHANGED <<now, exam, attempts, requests, scorer_runs>>

RECURSIVE SumMarks(_, _)
SumMarks(id, qs) ==
    IF qs = {} THEN 0
    ELSE LET q == CHOOSE q \in qs : TRUE IN
         answers[<<id, q>>].marks_awarded + SumMarks(id, qs \ {q})

\* Sum('marks_awarded') over the attempt's SHORT, LONG and CODE answers, or 0.0
subjective_sum(id) ==
    SumMarks(id, { q \in QuestionIds : /\ <<id, q>> \in DOMAIN answers
                                       /\ question_type(q) \in SubjectiveTypes })

\* the aggregate query; attempt.score_subjective = subjective_score
GradeSum(p) ==
    /\ pc[p] = "grade_sum"
    /\ Goto(p, [loc[p] EXCEPT !.attempt.score_subjective =
                                 subjective_sum(loc[p].attempt_id)],
            "grade_commit")
    /\ UNCHANGED <<now, exam, attempts, answers, requests, scorer_runs>>

\* mutant: the total is left as it was read
grade_total_stale(attempt) == attempt.total_score

\* total_score = score_objective + score_subjective
grade_total(attempt) == attempt.score_objective + attempt.score_subjective

\* attempt.save()
GradeCommit(p) ==
    /\ pc[p] = "grade_commit"
    /\ LET row == [loc[p].attempt EXCEPT !.total_score = grade_total(loc[p].attempt)] IN
        /\ attempts' = [attempts EXCEPT ![loc[p].attempt_id] = row]
        /\ Reply(p, loc[p], [status |-> "success", new_total |-> row.total_score])
    /\ UNCHANGED <<now, exam, answers, requests, scorer_runs>>

Next ==
    \/ Tick
    \/ \E p \in Workers, u \in Students : TakeExamView(p, u)
    \/ \E p \in Workers, u \in Students : StartGet(p, u)
    \/ \E p \in Workers : StartCreate(p)
    \/ \E p \in Workers : StartSave(p)
    \/ \E p \in Workers : StartRespond(p)
    \/ \E p \in Workers, u \in Students, id \in NamedIds,
          q \in QuestionIds \cup {MissingQuestion}, pl \in Payloads :
            SaveRead(p, u, id, q, pl)
    \/ \E p \in Workers : SaveWrite(p)
    \/ \E p \in Workers, u \in Students, id \in NamedIds : SubmitRead(p, u, id)
    \/ \E p \in Workers : SubmitFetch(p)
    \/ \E p \in Workers : SubmitScore(p)
    \/ \E p \in Workers : SubmitCommit(p)
    \/ \E p \in Workers, id \in NamedIds, q \in QuestionIds \cup {MissingQuestion},
          m \in 0 .. MaxGradeMarks :
            GradeRead(p, id, q, m)
    \/ \E p \in Workers : GradeAnswer(p)
    \/ \E p \in Workers : GradeSave(p)
    \/ \E p \in Workers : GradeSum(p)
    \/ \E p \in Workers : GradeCommit(p)

Spec == Init /\ [][Next]_vars

\* ------------------------------------------------- the scorer on its own
\* The auto evaluation of SubmitExamView.post, run on every set of answers
\* an attempt in progress can hold.

\* the selections a stored answer can hold: those of Payloads, and both
\* options of question 3 in either order, or one of them
StoredPayloads ==
    Payloads \cup { [selected_options |-> sel, answer_text |-> ""] :
                       sel \in {<<3, 4>>, <<4, 3>>, <<3>>} }

\* a StudentAnswer row as update_or_create leaves it
stored_answer(payload) ==
    [new_answer EXCEPT !.selected_options = payload.selected_options,
                       !.answer_text = payload.answer_text]

\* the StudentAnswer tables of attempt 1: any questions answered, any payloads
StoredAnswers ==
    UNION { [ { <<1, q>> : q \in qs } -> { stored_answer(pl) : pl \in StoredPayloads } ] :
              qs \in SUBSET QuestionIds }

ScorerInit ==
    /\ now = 0
    /\ exam \in ExamConfigs
    /\ attempts = << started(new_attempt(1, "s1"), 0, exam_questions) >>
    /\ answers \in StoredAnswers
    /\ pc = [p \in Workers |-> "idle"]
    /\ loc = [p \in Workers |-> IdleLoc]
    /\ resp = NoResp
    /\ requests = 0
    /\ scorer_runs = [i \in 1 .. NumWorkers |-> 0]

ScorerNext ==
    \/ \E p \in Workers, u \in Students, id \in NamedIds : SubmitRead(p, u, id)
    \/ \E p \in Workers : SubmitFetch(p)
    \/ \E p \in Workers : SubmitScore(p)
    \/ \E p \in Workers : SubmitCommit(p)

ScorerSpec == ScorerInit /\ [][ScorerNext]_vars

\* ------------------------------------- grading and submitting an attempt
\* Submit and grade requests on an attempt in progress that holds answers
\* to questions of the exam.

\* the StudentAnswer tables of attempt 1 after save-answer requests for
\* questions of the exam
SavedAnswers ==
    UNION { [ { <<1, q>> : q \in qs } -> { stored_answer(pl) : pl \in Payloads } ] :
              qs \in SUBSET ToSet(exam_questions) }

GradingInit ==
    /\ now = 0
    /\ exam \in ExamConfigs
    /\ attempts = << started(new_attempt(1, "s1"), 0, exam_questions) >>
    /\ answers \in SavedAnswers
    /\ pc = [p \in Workers |-> "idle"]
    /\ loc = [p \in Workers |-> IdleLoc]
    /\ resp = NoResp
    /\ requests = 0
    /\ scorer_runs = [i \in 1 .. NumWorkers |-> 0]

GradingNext ==
    \/ ScorerNext
    \/ \E p \in Workers, id \in NamedIds, q \in QuestionIds \cup {MissingQuestion},
          m \in 0 .. MaxGradeMarks :
            GradeRead(p, id, q, m)
    \/ \E p \in Workers : GradeAnswer(p)
    \/ \E p \in Workers : GradeSave(p)
    \/ \E p \in Workers : GradeSum(p)
    \/ \E p \in Workers : GradeCommit(p)

GradingSpec == GradingInit /\ [][GradingNext]_vars

\* ----------------------------------------------- one request after another
\* The same requests made by callers that wait for each response before
\* they send the next request.
Quiet == \A w \in Workers : pc[w] = "idle"

SerialNext ==
    \/ /\ Quiet
       /\ \E p \in Workers, u \in Students, id \in NamedIds : SubmitRead(p, u, id)
    \/ /\ Quiet
       /\ \E p \in Workers, id \in NamedIds, q \in QuestionIds \cup {MissingQuestion},
             m \in 0 .. MaxGradeMarks :
               GradeRead(p, id, q, m)
    \/ \E p \in Workers : SubmitFetch(p)
    \/ \E p \in Workers : SubmitScore(p)
    \/ \E p \in Workers : SubmitCommit(p)
    \/ \E p \in Workers : GradeAnswer(p)
    \/ \E p \in Workers : GradeSave(p)
    \/ \E p \in Workers : GradeSum(p)
    \/ \E p \in Workers : GradeCommit(p)

SerialSpec == GradingInit /\ [][SerialNext]_vars

\* ------------------------------------------------- another student calls
\* Save-answer and submit requests on the attempt of student s1, made by s1
\* and by another logged-in student.
OtherStudent == "s2"

AccessNext ==
    \/ \E p \in Workers, u \in Students \cup {OtherStudent}, id \in NamedIds,
          q \in QuestionIds \cup {MissingQuestion}, pl \in Payloads :
            SaveRead(p, u, id, q, pl)
    \/ \E p \in Workers : SaveWrite(p)
    \/ \E p \in Workers, u \in Students \cup {OtherStudent}, id \in NamedIds :
            SubmitRead(p, u, id)
    \/ \E p \in Workers : SubmitFetch(p)
    \/ \E p \in Workers : SubmitScore(p)
    \/ \E p \in Workers : SubmitCommit(p)

AccessSpec == GradingInit /\ [][AccessNext]_vars

\* ------------------------------------------------- the exam is edited
\* The question lists an instructor can leave the exam with in the admin
\* (ExamAdmin with its ExamQuestion inline): a question removed, a question
\* added, one replaced by another.
ExamEdits == { <<1>>, <<1, 2>>, <<1, 2, 3>>, <<1, 3>> }

\* the admin saves the exam with the ExamQuestion rows of the form
EditExam(questions) ==
    /\ questions # exam.questions
    /\ exam' = [exam EXCEPT !.questions = questions]
    /\ resp' = NoResp
    /\ UNCHANGED <<now, attempts, answers, pc, loc, requests, scorer_runs>>

\* start requests while the exam is edited
EditNext ==
    \/ \E p \in Workers, u \in Students : StartGet(p, u)
    \/ \E p \in Workers : StartCreate(p)
    \/ \E p \in Workers : StartSave(p)
    \/ \E p \in Workers : StartRespond(p)
    \/ \E questions \in ExamEdits : EditExam(questions)

EditSpec == Init /\ [][EditNext]_vars

\* ---------------------------------------------------------- a request fails
\* StartExamView.post, SubmitExamView.post and grade_attempt open no
\* transaction, so each query commits on its own.  A request that dies at its
\* next query (the database drops the connection, the worker is killed) is
\* answered with a 500 and leaves in the store what it wrote before.
Crash(p) ==
    /\ pc[p] # "idle"
    /\ Reply(p, loc[p], [status |-> "ServerError"])
    /\ UNCHANGED <<now, exam, attempts, answers, requests, scorer_runs>>

FailureNext ==
    \/ \E p \in Workers, u \in Students : StartGet(p, u)
    \/ \E p \in Workers : StartCreate(p)
    \/ \E p \in Workers : StartSave(p)
    \/ \E p \in Workers : StartRespond(p)
    \/ GradingNext
    \/ \E p \in Workers : Crash(p)

FailureSpec == Init /\ [][FailureNext]_vars

\* ------------------------------------------- no submit and no grading
\* exam_live_status: the attempts of the exam are counted for the page of the
\* instructor; the view writes nothing
exam_live_status(p) ==
    /\ Accept(p)
    /\ Reply(p, [IdleLoc EXCEPT !.op = "live_status", !.user = "teacher"],
             [status |-> "live_status",
              total_students |->
                  Cardinality({ i \in AttemptIds : attempts[i].exam = ExamId })])
    /\ UNCHANGED <<now, exam, attempts, answers, scorer_runs>>

\* the clock, and the requests that are neither submit nor gradeAnswer
UnsubmittedNext ==
    \/ Tick
    \/ \E p \in Workers, u \in Students : TakeExamView(p, u)
    \/ \E p \in Workers, u \in Students : StartGet(p, u)
    \/ \E p \in Workers : StartCreate(p)
    \/ \E p \in Workers : StartSave(p)
    \/ \E p \in Workers : StartRespond(p)
    \/ \E p \in Workers, u \in Students, id \in NamedIds,
          q \in QuestionIds \cup {MissingQuestion}, pl \in Payloads :
            SaveRead(p, u, id, q, pl)
    \/ \E p \in Workers : SaveWrite(p)
    \/ \E p \in Workers : exam_live_status(p)

UnsubmittedSpec == Init /\ [][UnsubmittedNext]_vars

\* ===================================================================== claims
\* Helpers of the claims: which request worker p takes in the step at hand.
Accepted(p) == pc[p] = "idle" /\ requests' = requests + 1

AcceptedOp(p, op) ==
    /\ Accepted(p)
    /\ \/ loc'[p].op = op
       \/ resp'.worker = p /\ resp'.request.op = op

\* the request worker p has just taken
AcceptedRequest(p) ==
    IF resp'.worker = p
    THEN resp'.request
    ELSE [op |-> loc'[p].op, user |-> loc'[p].user,
          attempt_id |-> loc'[p].attempt_id, created |-> loc'[p].created]

\* worker p answers in the step at hand
Answers(p, status) == resp'.worker = p /\ resp'.body.status = status

InSubmit(p) == pc[p] \in {"submit_fetch", "submit_score", "submit_commit"}

\* the legal changes of ExamStudent.status
Lifecycle(s, t) ==
    \/ s = t
    \/ s = "NOT_STARTED" /\ t = "IN_PROGRESS"
    \/ s = "IN_PROGRESS" /\ t \in Terminal

\* isExpired: now > exam.end_datetime, or no time remains
Expired(attempt, t) ==
    \/ t > end_datetime
    \/ attempt.started_at # NoTime /\ remaining_seconds(attempt, t) = 0

\* C1: however start calls for one (exam, student) pair interleave, the pair
\* has exactly one attempt afterwards, and every one of the calls returns
\* successfully with the id of that attempt.
C1_StartRaceConverges ==
    /\ \A u \in Students : Cardinality(matching(u)) <= 1
    /\ resp.request.op = "start" =>
         /\ resp.body.status = "ok"
         /\ matching(resp.request.user) = {resp.body.attempt_id}

\* C2: of the submit calls racing on one attempt exactly one runs the Scorer
\* and commits; the others see the terminal attempt: the Scorer runs at most
\* once per attempt and no two submits of an attempt are past the check at once.
C2_ScorerRunsOnce ==
    /\ \A i \in AttemptIds : scorer_runs[i] <= 1
    /\ \A p, q \in Workers :
         (p # q /\ InSubmit(p) /\ InSubmit(q)) => loc[p].attempt_id # loc[q].attempt_id

\* C3: every change of an attempt's persisted status is NOT_STARTED ->
\* IN_PROGRESS or IN_PROGRESS -> SUBMITTED | AUTO_SUBMITTED; no write changes
\* the status of a terminal attempt.
C3_Lifecycle ==
    [][\A i \in AttemptIds : Lifecycle(attempts[i].status, attempts'[i].status)]_vars

\* C4: in every reachable persisted state of every attempt, total_score is
\* score_objective + score_subjective.
C4_TotalIsSum ==
    \A i \in AttemptIds :
        attempts[i].total_score = attempts[i].score_objective + attempts[i].score_subjective

\* C4 witness: a grade request has just committed a non-zero subjective score
\* to an attempt that a submit had scored before.
C4_Witness ==
    /\ resp.request.op = "gradeAnswer"
    /\ resp.body.status = "success"
    /\ attempts[resp.request.attempt_id].status \in Terminal
    /\ attempts[resp.request.attempt_id].score_subjective # 0
    /\ attempts[resp.request.attempt_id].total_score # 0

\* C5: no save-answer request writes an Answer once the attempt's terminal
\* state is committed.
C5_NoSaveAfterTerminal ==
    [][\A p \in Workers :
         (pc[p] = "save_write" /\ pc'[p] # "save_write")
            => attempts[loc[p].attempt_id].status \notin Terminal]_vars

\* C6: a save-answer request of the attempt's student that finds the attempt
\* in a state other than IN_PROGRESS is answered InvalidState at once and
\* changes neither the answers nor the attempts.
C6_SaveNeedsInProgress ==
    [][\A p \in Workers :
         LET r == AcceptedRequest(p) IN
         ( /\ AcceptedOp(p, "saveAnswer")
           /\ r.attempt_id \in AttemptIds
           /\ attempts[r.attempt_id].student = r.user
           /\ attempts[r.attempt_id].status # "IN_PROGRESS" )
            => (Answers(p, "InvalidState") /\ pc'[p] = "idle" /\ UNCHANGED store)]_vars

\* C6 witness: a save-answer request on a submitted attempt has just been refused.
C6_Witness ==
    /\ resp.request.op = "saveAnswer"
    /\ resp.body.status = "InvalidState"
    /\ attempts[resp.request.attempt_id].status \in Terminal
    /\ attempts[resp.request.attempt_id].student = resp.request.user

\* C7: a submit of a started attempt commits AUTO_SUBMITTED when the attempt
\* was expired at the time of the call, and SUBMITTED when it was not.
C7_ExpiredSubmitIsAuto ==
    [][\A p \in Workers :
         (pc[p] = "submit_commit" /\ pc'[p] = "idle" /\ loc[p].attempt.started_at # NoTime)
            => attempts'[loc[p].attempt_id].status =
                 IF Expired(loc[p].attempt, loc[p].attempt.submitted_at)
                 THEN "AUTO_SUBMITTED" ELSE "SUBMITTED"]_vars

\* C8: a start request made before exam.start_datetime or after
\* exam.end_datetime is answered WindowClosed and creates or changes no attempt.
C8_StartOutsideWindow ==
    [][\A p \in Workers :
         (AcceptedOp(p, "start") /\ (now < start_datetime \/ now > end_datetime))
            => (Answers(p, "WindowClosed") /\ pc'[p] = "idle" /\ UNCHANGED store)]_vars

\* C9: a grade request on an attempt that is not terminal is answered
\* InvalidState and writes nothing.
C9_GradeNeedsTerminal ==
    [][\A p \in Workers :
         LET r == AcceptedRequest(p) IN
         ( /\ AcceptedOp(p, "gradeAnswer")
           /\ r.attempt_id \in AttemptIds
           /\ attempts[r.attempt_id].status \notin Terminal )
            => (Answers(p, "InvalidState") /\ pc'[p] = "idle" /\ UNCHANGED store)]_vars

\* C10: a start request for a pair that already has an attempt, whatever its
\* state, returns that attempt's id and changes neither the attempt nor its
\* answers.
C10_StartResumes ==
    [][\A p \in Workers :
         /\ (AcceptedOp(p, "start") /\ matching(AcceptedRequest(p).user) # {})
               => (pc'[p] = "start_respond" /\ UNCHANGED store)
         /\ (pc[p] = "start_respond" /\ ~loc[p].created /\ pc'[p] = "idle")
               => /\ resp'.body.status = "ok"
                  /\ resp'.body.attempt_id = loc[p].attempt_id
                  /\ UNCHANGED store]_vars

\* C11: a submit request of the attempt's student that finds the attempt
\* already terminal is answered at once and without an error, its response
\* carries the attempt's total score as the first submit's response did, and
\* it changes neither the attempts nor the answers.
C11_SecondSubmitSame ==
    [][\A p \in Workers :
         LET r == AcceptedRequest(p) IN
         ( /\ AcceptedOp(p, "submit")
           /\ r.attempt_id \in AttemptIds
           /\ attempts[r.attempt_id].student = r.user
           /\ attempts[r.attempt_id].status \in Terminal )
            => /\ resp'.worker = p
               /\ resp'.body.status \notin {"NotFound", "InvalidState", "ServerError"}
               /\ "score" \in DOMAIN resp'.body
               /\ resp'.body.score = attempts[r.attempt_id].total_score
               /\ UNCHANGED store]_vars

\* C12: in every reachable state a SUBMITTED or AUTO_SUBMITTED attempt has a
\* submitted_at, and the objective scoring has run exactly once for it.
C12_TerminalScoredOnce ==
    \A i \in AttemptIds :
        attempts[i].status \in Terminal =>
            (attempts[i].submitted_at # NoTime /\ scorer_runs[i] = 1)

\* the columns of an attempt that a reader of results looks at
Result(attempt) == <<attempt.status, attempt.score_objective, attempt.total_score>>

\* C13: a terminal status never reaches the table without the score of the
\* submission: every write that leaves an attempt terminal with another
\* status, objective score or total than before is either the attempt.save()
\* of a submit whose evaluation loop has finished, writing the status, the
\* objective score the loop computed and the total derived from it in one
\* step, or the attempt.save() of a grade request that read the attempt
\* terminal and puts back the objective score it read.
C13_TerminalWithScore ==
    [][\A i \in DOMAIN attempts' :
         ( /\ attempts'[i].status \in Terminal
           /\ (i \in AttemptIds => Result(attempts'[i]) # Result(attempts[i])) )
            => \E p \in Workers :
                 /\ loc[p].attempt_id = i
                 /\ pc'[p] = "idle"
                 /\ attempts'[i].total_score =
                        attempts'[i].score_objective + attempts'[i].score_subjective
                 /\ \/ /\ pc[p] = "submit_commit"
                       /\ loc[p].todo = {}
                       /\ attempts'[i].score_objective = loc[p].total
                    \/ /\ pc[p] = "grade_commit"
                       /\ loc[p].attempt.status \in Terminal
                       /\ attempts'[i].score_objective =
                              loc[p].attempt.score_objective]_vars

\* C13 witness: a submit has just committed an attempt together with a
\* non-zero objective score.
C13_Witness ==
    /\ resp.request.op = "submit"
    /\ resp.body.status = "submitted"
    /\ attempts[resp.request.attempt_id].status \in Terminal
    /\ attempts[resp.request.attempt_id].score_objective # 0

\* C14: the question_order of a started attempt is a permutation of the
\* exam's question ids, and no step changes it.
C14_OrderFixed ==
    [][\A i \in AttemptIds :
         attempts[i].status # "NOT_STARTED" =>
            /\ attempts[i].question_order \in shuffles(exam_questions)
            /\ attempts'[i].question_order = attempts[i].question_order]_vars

\* C15: for an exam that does not shuffle, every start response lists the
\* questions in the order the exam defines (ExamQuestion.order), the response
\* of the start that creates the attempt and of every later start alike.
C15_DefinedOrder ==
    ( /\ resp.request.op = "start"
      /\ resp.body.status = "ok"
      /\ ~exam.shuffle_questions )
        => resp.body.questions = exam_questions

\* C16: no step stores an answer to a question outside its attempt's
\* question_order (so every stored answer belongs to a question of the order),
\* and a save-answer request is let through to its write only for a question
\* of the order: for any other question it is refused before it writes.
C16_AnswersInOrder ==
    [][/\ \A key \in DOMAIN answers' \ DOMAIN answers :
            key[2] \in ToSet(attempts[key[1]].question_order)
       /\ \A p \in Workers :
            (AcceptedOp(p, "saveAnswer") /\ pc'[p] = "save_write")
               => loc'[p].question \in
                     ToSet(attempts[loc'[p].attempt_id].question_order)]_vars

\* the objective answers among the persisted answers of attempt id
ObjectiveAnswered(id) ==
    { q \in QuestionIds : /\ <<id, q>> \in DOMAIN answers
                          /\ question_type(q) \in ObjectiveTypes }

Selected(id, q) == ToSet(answers[<<id, q>>].selected_options)

RECURSIVE SumBaseMarks(_)
SumBaseMarks(qs) ==
    IF qs = {} THEN 0
    ELSE LET q == CHOOSE q \in qs : TRUE IN question_marks(q) + SumBaseMarks(qs \ {q})

\* C17: the objective score a submit commits is the sum of the questions'
\* marks over the objective answers whose selected set equals the correct set,
\* minus the negative-marking coefficient (when it is > 0) once for every
\* objective answer whose selected set is non-empty and differs from the
\* correct set; empty selections and subjective answers count 0 and the
\* result is not floored at zero.
C17_ObjectiveScore ==
    [][\A p \in Workers :
         (pc[p] = "submit_commit" /\ pc'[p] = "idle") =>
            LET id == loc[p].attempt_id
                right == { q \in ObjectiveAnswered(id) : Selected(id, q) = correct_options(q) }
                wrong == { q \in ObjectiveAnswered(id) :
                             Selected(id, q) # {} /\ Selected(id, q) # correct_options(q) }
            IN attempts'[id].score_objective =
                 SumBaseMarks(right)
                   - (IF exam.negative_marking > 0
                      THEN exam.negative_marking * Cardinality(wrong) ELSE 0)]_vars

\* C17 witness: a submit has just committed a negative objective score for an
\* attempt that holds a right answer, a wrong answer and a subjective answer
\* with a selection.
C17_Witness ==
    /\ resp.request.op = "submit"
    /\ resp.body.status = "submitted"
    /\ attempts[1].score_objective < 0
    /\ DOMAIN answers = { <<1, q>> : q \in QuestionIds }
    /\ Selected(1, 2) # {}
    /\ \E q \in ObjectiveAnswered(1) : Selected(1, q) = {}

\* the marks a question counts in the exam: ExamQuestion.marks_override if
\* one is set, else Question.marks
exam_marks(q) ==
    IF marks_override(q) # NoOverride THEN marks_override(q) ELSE question_marks(q)

\* C18: when the evaluation loop finds an answer correct, the marks it awards
\* to the answer and adds to the objective total are the exam's override for
\* the question if one is set, and the question's own marks otherwise.
C18_OverrideMarks ==
    [][\A p \in Workers :
         pc[p] = "submit_score" =>
            \A q \in loc[p].todo \ loc'[p].todo :
                is_correct(q, loc[p].snap[q]) =>
                    /\ answers'[<<loc[p].attempt_id, q>>].marks_awarded = exam_marks(q)
                    /\ loc'[p].total = loc[p].total + exam_marks(q)]_vars

\* C19: when a grade request completes, the attempt's score_subjective is the
\* sum of marks_awarded over the attempt's stored answers to subjective
\* questions, total_score is score_objective plus that sum, and the graded
\* answer exists.
C19_SubjectiveIsSum ==
    [][\A p \in Workers :
         (pc[p] = "grade_commit" /\ pc'[p] = "idle") =>
            \A id \in AttemptIds :
                loc[p].attempt_id = id =>
                    /\ <<id, loc[p].question>> \in DOMAIN answers'
                    /\ attempts'[id].score_subjective = subjective_sum(id)'
                    /\ attempts'[id].total_score =
                           attempts'[id].score_objective
                             + attempts'[id].score_subjective]_vars

\* C20: the attempt.save() of a grade request leaves the attempt's persisted
\* score_objective as it is.
C20_GradeKeepsObjective ==
    [][\A p \in Workers :
         (pc[p] = "grade_commit" /\ pc'[p] = "idle") =>
            attempts'[loc[p].attempt_id].score_objective =
                attempts[loc[p].attempt_id].score_objective]_vars

\* C21: grade calls made one after another on a terminal attempt leave, for
\* every question, the marks of the latest call for it, and scores that are a
\* function of those marks alone: each call sets the marks_awarded of its own
\* answer to the value given and touches no other answer, and when it
\* completes score_subjective is the sum of the subjective answers' marks,
\* score_objective is as before and total_score is their sum.  So neither the
\* order of calls for different questions nor a repeated call shows in the
\* final state.
C21_LatestGradeWins ==
    [][\A p \in Workers :
         \A id \in AttemptIds :
            ( /\ loc[p].op = "gradeAnswer"
              /\ loc[p].attempt_id = id
              /\ loc[p].attempt.status \in Terminal
              /\ pc'[p] # pc[p] ) =>
                LET key == <<id, loc[p].question>> IN
                /\ \A k \in DOMAIN answers : k # key => answers'[k] = answers[k]
                /\ DOMAIN answers' = DOMAIN answers \cup {key}
                /\ pc[p] = "grade_save" => answers'[key].marks_awarded = loc[p].marks
                /\ pc[p] \in {"grade_sum", "grade_commit"} =>
                       answers'[key].marks_awarded = loc[p].marks
                /\ pc[p] = "grade_commit" =>
                       /\ attempts'[id].score_subjective = subjective_sum(id)'
                       /\ attempts'[id].score_objective = attempts[id].score_objective
                       /\ attempts'[id].total_score =
                              attempts'[id].score_objective + subjective_sum(id)'
                       /\ attempts'[id].status = attempts[id].status]_vars

\* C21 witness: the second of two grade calls on a submitted attempt has just
\* completed, and the attempt has a subjective score.
C21_Witness ==
    /\ Quiet
    /\ requests = MaxRequests
    /\ resp.request.op = "gradeAnswer"
    /\ resp.body.status = "success"
    /\ attempts[1].status \in Terminal
    /\ attempts[1].score_subjective # 0
    /\ attempts[1].score_objective # 0

\* a start request of worker p is answered in the step at hand
StartAnswered(p) == pc[p] = "start_respond" /\ pc'[p] = "idle"

C23_OthersAttempt ==
    [][\A p \in Workers :
         LET r == AcceptedRequest(p) IN
         ( /\ AcceptedOp(p, "saveAnswer") \/ AcceptedOp(p, "submit")
           /\ r.attempt_id \in AttemptIds
           /\ attempts[r.attempt_id].student # r.user )
            => (Answers(p, "NotFound") /\ pc'[p] = "idle" /\ UNCHANGED store)]_vars

\* C23 witness: another student's submit of an attempt in progress that holds
\* answers has just been refused.
C23_Witness ==
    /\ resp.request.op = "submit"
    /\ resp.request.user = OtherStudent
    /\ resp.request.attempt_id \in AttemptIds
    /\ resp.body.status = "NotFound"
    /\ attempts[resp.request.attempt_id].status = "IN_PROGRESS"
    /\ answers # <<>>

\* C24: what start returns to the student is the same whichever options the
\* catalog flags as correct: every listed question is serialized as it would
\* be under any other flagging of its options, and the saved answers carry
\* the student's own selection and text and nothing else.
C24_FlagsInvisible ==
    (resp.request.op = "start" /\ resp.body.status = "ok") =>
        /\ \A i \in DOMAIN resp.body.question_data :
             \A correct \in SUBSET question_options(resp.body.questions[i]) :
                resp.body.question_data[i] =
                    QuestionSerializer(resp.body.questions[i], correct)
        /\ \A q \in DOMAIN resp.body.saved_answers :
             DOMAIN resp.body.saved_answers[q] = {"selected_options", "answer_text"}

\* C24 witness: a start has just returned a question with options together
\* with a saved selection for it.
C24_Witness ==
    /\ resp.request.op = "start"
    /\ resp.body.status = "ok"
    /\ \E i \in DOMAIN resp.body.question_data :
         /\ resp.body.question_data[i].options # {}
         /\ resp.body.questions[i] \in DOMAIN resp.body.saved_answers
         /\ resp.body.saved_answers[resp.body.questions[i]].selected_options # <<>>

\* the payload an answer row holds
PayloadOf(row) ==
    [selected_options |-> row.selected_options, answer_text |-> row.answer_text]

\* C25: a save-answer that succeeds leaves one answer for its (attempt,
\* question) holding exactly its payload, adds no other answer and changes no
\* other answer; when the stored payload is already the one sent, the table
\* stays as it is.  A start answered afterwards returns, for every question
\* with a stored answer, the payload stored.
C25_LatestPayloadStored ==
    [][\A p \in Workers :
         /\ (pc[p] = "save_write" /\ pc'[p] = "idle") =>
               LET key == <<loc[p].attempt_id, loc[p].question>> IN
               /\ resp'.body.status = "saved"
               /\ DOMAIN answers' = DOMAIN answers \cup {key}
               /\ PayloadOf(answers'[key]) = loc[p].payload
               /\ \A k \in DOMAIN answers : k # key => answers'[k] = answers[k]
               /\ (key \in DOMAIN answers /\ PayloadOf(answers[key]) = loc[p].payload)
                     => answers' = answers
         /\ (StartAnswered(p) /\ resp'.body.status = "ok") =>
               \A q \in QuestionIds :
                  /\ q \in DOMAIN resp'.body.saved_answers
                        <=> <<loc[p].attempt_id, q>> \in DOMAIN answers
                  /\ q \in DOMAIN resp'.body.saved_answers =>
                        resp'.body.saved_answers[q] =
                            PayloadOf(answers[<<loc[p].attempt_id, q>>])]_vars

\* C25 witness: after a start and a first save, a second save has just
\* stored a selection together with a text.
C25_Witness ==
    /\ resp.request.op = "saveAnswer"
    /\ resp.body.status = "saved"
    /\ requests = MaxRequests
    /\ Quiet
    /\ \E q \in QuestionIds :
         /\ DOMAIN answers = {<<resp.request.attempt_id, q>>}
         /\ answers[<<resp.request.attempt_id, q>>].answer_text = "text"

\* C26: a save-answer that succeeds for a pair that already has an answer
\* leaves that answer with is_evaluated = FALSE and marks_awarded = 0.
C26_SaveResetsGrade ==
    [][\A p \in Workers :
         LET key == <<loc[p].attempt_id, loc[p].question>> IN
         (pc[p] = "save_write" /\ pc'[p] = "idle" /\ key \in DOMAIN answers) =>
            /\ answers'[key].is_evaluated = FALSE
            /\ answers'[key].marks_awarded = 0]_vars

\* the save-answer request of worker p overlaps another one of the same
\* attempt: the other is past its checks too, or it wrote in the step before
SavesInFlight(p) ==
    /\ pc[p] = "save_write"
    /\ \/ \E w \in Workers \ {p} :
             pc[w] = "save_write" /\ loc[w].attempt_id = loc[p].attempt_id
       \/ /\ resp.request.op = "saveAnswer"
          /\ resp.body.status = "saved"
          /\ resp.request.attempt_id = loc[p].attempt_id

\* C27: save-answer requests that overlap on one attempt do not interfere.
\* The write of each stores its whole payload, so an answer both named holds
\* the payload of the later writer and never a mix of the two, and the write
\* leaves the answers of the other questions as they are.
C27_ConcurrentSaves ==
    [][\A p \in Workers :
         (SavesInFlight(p) /\ pc'[p] = "idle") =>
            LET key == <<loc[p].attempt_id, loc[p].question>> IN
            /\ PayloadOf(answers'[key]) = loc[p].payload
            /\ \A k \in DOMAIN answers' : k # key =>
                   (k \in DOMAIN answers /\ answers'[k] = answers[k])]_vars

\* C27 witness: of two overlapping saves for the same question with different
\* payloads, one has just written and the other is about to.
C27_Witness ==
    /\ resp.request.op = "saveAnswer"
    /\ resp.body.status = "saved"
    /\ \E w \in Workers :
         /\ pc[w] = "save_write"
         /\ loc[w].attempt_id = resp.request.attempt_id
         /\ <<loc[w].attempt_id, loc[w].question>> \in DOMAIN answers
         /\ DOMAIN answers = {<<loc[w].attempt_id, loc[w].question>>}
         /\ PayloadOf(answers[<<loc[w].attempt_id, loc[w].question>>]).answer_text = "text"
         /\ loc[w].payload.answer_text = ""

\* the request of worker p has written to the store and has more to write:
\* start has inserted the row and not saved it; submit has saved an answer
\* and not the attempt; gradeAnswer has inserted or saved the answer and not
\* saved the attempt
MidWrites(p) ==
    \/ pc[p] = "start_save"
    \/ pc[p] = "submit_score" /\ loc[p].todo # objective_rows(loc[p].snap)
    \/ pc[p] = "submit_commit" /\ objective_rows(loc[p].snap) # {}
    \/ pc[p] = "grade_save" /\ loc[p].created
    \/ pc[p] \in {"grade_sum", "grade_commit"}

\* the request of worker p ends with a failure
Failed(p) ==
    pc[p] # "idle" /\ pc'[p] = "idle" /\ resp'.body.status = "ServerError"

\* the store holds nothing of what the request with the locals l wrote: no
\* row of a start that created it, the answers as submit read them, no answer
\* of a gradeAnswer that created it (what an answer that gradeAnswer found
\* held before is not kept, and such a request is not judged on it)
AsBefore(l) ==
    \/ l.op = "start" /\ l.attempt_id \notin AttemptIds
    \/ /\ l.op = "submit"
       /\ \A q \in objective_rows(l.snap) \ l.todo :
             answers[<<l.attempt_id, q>>] = l.snap[q]
    \/ /\ l.op = "gradeAnswer"
       /\ l.created => <<l.attempt_id, l.question>> \notin DOMAIN answers

\* the store holds all of what the request with the locals l writes
AsAfter(l) ==
    \E id \in AttemptIds :
      /\ id = l.attempt_id
      /\ \/ /\ l.op = "start"
            /\ attempts[id].status = "IN_PROGRESS"
            /\ attempts[id].started_at # NoTime
            /\ attempts[id].question_order \in question_orders
         \/ /\ l.op = "submit"
            /\ attempts[id].status = "SUBMITTED"
            /\ \A q \in objective_rows(l.snap) : answers[<<id, q>>].is_evaluated
         \/ /\ l.op = "gradeAnswer"
            /\ answers[<<id, l.question>>].is_evaluated
            /\ answers[<<id, l.question>>].marks_awarded = l.marks
            /\ attempts[id].score_subjective = subjective_sum(id)
            /\ attempts[id].total_score =
                  attempts[id].score_objective + attempts[id].score_subjective

\* C28: a start, submit or gradeAnswer request that fails between two of its
\* writes leaves the attempt and its answers as they were before the request
\* or as they are after the whole request, never in between.
C28_AllOrNothing ==
    [][\A p \in Workers : \A l \in {loc[p]} :
         (MidWrites(p) /\ Failed(p)) => (AsBefore(l) \/ AsAfter(l))']_vars

\* C29: a save-answer request that selects an option which is not an option
\* of the question it names is refused: it does not get past the checks of
\* the view to the write, so no stored answer holds such a selection.
C29_ForeignOptionRefused ==
    [][\A p \in Workers :
         (AcceptedOp(p, "saveAnswer") /\ pc'[p] = "save_write") =>
            ToSet(loc'[p].payload.selected_options)
               \subseteq question_options(loc'[p].question)]_vars

\* C30: the ok response of a start that resumes an attempt lists the
\* questions of the attempt's stored question_order: the same ids in the
\* same order, none missing, whatever the exam's questions are by then.
C30_ResumeWalksStoredOrder ==
    [][\A p \in Workers :
         ( /\ StartAnswered(p)
           /\ ~loc[p].created
           /\ resp'.body.status = "ok" )
             => resp'.body.questions = loc[p].attempt.question_order]_vars

\* C31: when submit scores an answer that selects nothing, the answer adds
\* nothing to the objective score, whatever the negative marking, and it is
\* not marked as evaluated.
C31_UnansweredUntouched ==
    [][\A p \in Workers : \A id \in AttemptIds : \A q \in QuestionIds :
         ( /\ pc[p] = "submit_score"
           /\ loc[p].attempt_id = id
           /\ q \in loc[p].todo
           /\ q \notin loc'[p].todo
           /\ loc[p].snap[q].selected_options = <<>> )
             => /\ loc'[p].total = loc[p].total
                /\ answers'[<<id, q>>].is_evaluated = FALSE]_vars

\* C32: an attempt leaves IN_PROGRESS only through a submit for it: every
\* step that takes an attempt out of IN_PROGRESS is the commit of a submit
\* request that names the attempt.
C32_OnlySubmitEnds ==
    [][\A i \in AttemptIds :
         (attempts[i].status = "IN_PROGRESS" /\ attempts'[i].status # "IN_PROGRESS")
            => \E p \in Workers : /\ pc[p] = "submit_commit"
                                  /\ pc'[p] = "idle"
                                  /\ loc[p].attempt_id = i]_vars

\* the attempt named by the request worker p takes in the step at hand
AcceptedAttempt(p) ==
    IF pc'[p] = "idle" THEN resp'.request.attempt_id ELSE loc'[p].attempt_id

\* C33: expiry is enforced at the next call.  A save-answer request for an
\* attempt that is IN_PROGRESS and expired does not reach the write and does
\* not leave the attempt IN_PROGRESS, and neither does a start that answers
\* for such an attempt.
C33_ExpiryEnforced ==
    [][\A p \in Workers : \A id \in AttemptIds :
         (attempts[id].status = "IN_PROGRESS" /\ Expired(attempts[id], now)) =>
            /\ (AcceptedOp(p, "saveAnswer") /\ AcceptedAttempt(p) = id) =>
                  /\ pc'[p] # "save_write"
                  /\ attempts'[id].status # "IN_PROGRESS"
            /\ (StartAnswered(p) /\ loc[p].attempt_id = id) =>
                  attempts'[id].status # "IN_PROGRESS"]_vars

\* the row is past the first save of the start that created it
SeenStarted(attempt) ==
    /\ attempt.status # "NOT_STARTED"
    /\ attempt.started_at # NoTime
    /\ attempt.question_order # <<>>

\* C34: whatever the interleaving with the start that creates an attempt, a
\* request that reads the attempt (another start, a save-answer, a submit)
\* reads it past NOT_STARTED, with started_at set and question_order stored.
C34_ReadersSeeStarted ==
    [][\A p \in Workers :
         /\ (AcceptedOp(p, "start") /\ pc'[p] = "start_respond")
               => SeenStarted(loc'[p].attempt)
         /\ \A id \in AttemptIds :
               ( /\ AcceptedOp(p, "saveAnswer") \/ AcceptedOp(p, "submit")
                 /\ AcceptedAttempt(p) = id )
                  => SeenStarted(attempts[id])]_vars

\* C35: once the gradeAnswer and submit requests for an attempt have all
\* completed, however they overlapped, the attempt's score_subjective is the
\* sum of marks_awarded over its subjective answers and its total_score is
\* score_objective plus that sum: no save of the attempt row has put back a
\* score another request had replaced.
C35_NoLostUpdate ==
    Quiet => \A id \in AttemptIds :
                /\ attempts[id].score_subjective = subjective_sum(id)
                /\ attempts[id].total_score =
                      attempts[id].score_objective + subjective_sum(id)
====
